---- MODULE Spec2Model ----
(***************************************************************************)
(* WHIP muxer / WHEP demuxer over libdatachannel (libavformat/webrtc.c,    *)
(* webrtc_demux.c and the WHIP muxer).  One session (one WebRTCContext) is *)
(* modelled: the caller thread walks through open / write / close with a   *)
(* program counter, and the engine thread delivers state-change            *)
(* notifications in between.                                               *)
(***************************************************************************)
EXTENDS Integers, Sequences, FiniteSets, TLC

(* ------------------------------ bounds --------------------------------- *)
\* streams handed to the muxer (avctx->nb_streams), at least one
MaxStreams == 2
\* packets the caller writes in one session
MaxWrites == 2
\* close calls the caller issues on one session
MaxCloses == 2
\* connection_timeout option, in clock ticks of the model
ConnectionTimeout == 1
\* size of the description buffers (SDP_MAX_SIZE), scaled down
SDP_MAX_SIZE == 2
\* size of the buffer an RTP reader reads a message into
\* (RTP_MAX_PACKET_SIZE), scaled down
RTP_MAX_PACKET_SIZE == 1

(* --------------------------- error codes ------------------------------- *)
AVERROR_EXTERNAL == -542398533
AVERROR_EINVAL == -22
AVERROR_ENOMEM == -12
\* what the HTTP layer (ffurl_*) returns when a step fails
AVERROR_EIO == -5
AVERROR_EXIT == -1414092869
AVERROR_EAGAIN == -11
AVERROR_BUFFER_TOO_SMALL == -1397118274
AVERROR_EOF == -541478725
\* the engine refusing a call (rtcCreatePeerConnection, rtcAddTrackEx,
\* rtcSetRemoteDescription): a negative RTC_ERR_* value
RTC_ERR_FAILURE == -2

(* ------------------------------ values --------------------------------- *)
\* rtcState, by the names webrtc_get_state_name gives them
RtcStates ==
    {"RTC_NEW", "RTC_CONNECTING", "RTC_CONNECTED", "RTC_DISCONNECTED",
     "RTC_FAILED", "RTC_CLOSED"}

\* a NULL char* / a NULL WebRTCTrack*
NULL == "NULL"
NULL_TRACKS == <<>>

\* what av_opt_get(.., "new_location", ..) can store: the Location header of
\* the answer, or "" when the server sent none
Locations == {"", "http://host/resource/1"}

\* a zero-initialised WebRTCTrack (av_mallocz)
WebRTCTrack == [track_id |-> 0, rtp_ctx |-> FALSE, rtp_url_context |-> FALSE]

\* the streams a caller can hand to the muxer
VideoH264 == [codec_type |-> "VIDEO", codec_id |-> "H264", sample_rate |-> 0, stereo |-> FALSE]
VideoRaw == [codec_type |-> "VIDEO", codec_id |-> "RAWVIDEO", sample_rate |-> 0, stereo |-> FALSE]
AudioOpus == [codec_type |-> "AUDIO", codec_id |-> "OPUS", sample_rate |-> 48000, stereo |-> TRUE]
AudioOpus44k == [codec_type |-> "AUDIO", codec_id |-> "OPUS", sample_rate |-> 44100, stereo |-> TRUE]
AudioOpusMono == [codec_type |-> "AUDIO", codec_id |-> "OPUS", sample_rate |-> 48000, stereo |-> FALSE]
DataStream == [codec_type |-> "DATA", codec_id |-> "BIN_DATA", sample_rate |-> 0, stereo |-> FALSE]
StreamKinds == {VideoH264, VideoRaw, AudioOpus, AudioOpus44k, AudioOpusMono, DataStream}

StreamLists == UNION {[1..n -> StreamKinds] : n \in 1..MaxStreams}

\* handle the engine gives to the peer connection and to track i (0-based)
PcHandle == 1
TrackHandle(i) == i + 2

\* no whip_write_packet has run yet
NoPacket == [addressed |-> -1, stream_index |-> -1]
\* no whep_read_packet has run yet
NoRead ==
    [ready |-> {}, track |-> -1, stream_index |-> 0, recv |-> "none",
     size |-> 0, bytes |-> 0]
\* pkt->stream_index of the blank packet the demuxer framework passes to
\* read_packet
BlankPacketIndex == {0}

VARIABLES
    role,               \* "whip" (muxer) or "whep" (demuxer)
    streams,            \* avctx->streams of the muxer
    bearer_token,       \* ctx->bearer_token set or not
    peer_connection,    \* ctx->peer_connection
    state,              \* ctx->state
    tracks,             \* ctx->tracks
    nb_tracks,          \* ctx->nb_tracks
    resource_location,  \* ctx->resource_location
    pc,                 \* where the caller thread is
    i,                  \* loop index of the running handler
    ret,                \* what the last handler returned (or is about to)
    now,                \* av_gettime_relative() since the connect wait began
    timeout,            \* deadline of the connect wait (a local of the wait)
    wait_result,        \* how the connect wait ended
    rtc,                \* the engine: peer connection and callback
    live,               \* resources allocated and not released
    events,             \* HTTP requests and releases, in order
    http_body,          \* the body the POST answered: "none", "fits" the
                        \* description buffer or is "oversized"
    remote_description, \* what rtcSetRemoteDescription applied: "none", the
                        \* "whole" body or a "truncated" one
    pub_streams,        \* avctx->streams of the demuxer: track each came from
    rtp_written,        \* packets handed to av_write_frame: track index
    wcount,             \* whip_write_packet calls
    closes,             \* completed close calls
    last_read,          \* the last whep_read_packet: the tracks whose transport
                        \* had a message ready, the track whose RTP reader
                        \* filled the packet (-1: none), pkt->stream_index,
                        \* what rtcReceiveMessage answered, the length of
                        \* the message, what webrtc_read returned
    pkt,                \* the packet of the last whip_write_packet: the stream
                        \* the caller addressed it to, pkt->stream_index as
                        \* the call left it
    interrupted_at,     \* avctx->interrupt_callback: "clear" while it answers
                        \* 0, else the position of the connect wait at which
                        \* it began to answer non-zero
    guard_read          \* what the last read of ctx->state by the guard of
                        \* the connect wait returned, as the wait tells the
                        \* states apart ("none": no read yet, or the session
                        \* was torn down since)

ctxvars == <<peer_connection, state, tracks, nb_tracks, resource_location>>
vars ==
    <<role, streams, bearer_token, peer_connection, state, tracks, nb_tracks,
      resource_location, pc, i, ret, now, timeout, wait_result, rtc, live,
      events, http_body, remote_description, pub_streams, rtp_written, wcount,
      closes, last_read, pkt, interrupted_at, guard_read>>

Init ==
    /\ role \in {"whip", "whep"}
    /\ streams \in IF role = "whip" THEN StreamLists ELSE {<<>>}
    /\ bearer_token \in BOOLEAN
    /\ peer_connection = 0
    /\ state = "RTC_NEW"
    /\ tracks = NULL_TRACKS
    /\ nb_tracks = 0
    /\ resource_location = NULL
    /\ pc = IF role = "whip" THEN "whip_init" ELSE "whep_read_header"
    /\ i = 0
    /\ ret = 0
    /\ now = 0
    /\ timeout = 0
    /\ wait_result = "none"
    /\ rtc = [pc |-> "none", cb |-> FALSE]
    /\ live = {}
    /\ events = <<>>
    /\ http_body = "none"
    /\ remote_description = "none"
    /\ pub_streams = <<>>
    /\ rtp_written = <<>>
    /\ wcount = 0
    /\ closes = 0
    /\ interrupted_at = "clear"
    /\ guard_read = "none"
    /\ last_read = NoRead
    /\ pkt = NoPacket

(* ------------------------- shared code: webrtc.c ----------------------- *)

\* s with the elements of the sequence evs appended
Log(s, evs) == s \o evs

\* ff_webrtc_init_connection: rtcCreatePeerConnection, rtcSetUserPointer,
\* rtcSetStateChangeCallback.  o is what the engine answers:
\*   "create_fail"  rtcCreatePeerConnection returns a negative error, which
\*                  the !peer_connection test lets through; registering the
\*                  callback on that id then fails
\*   "cb_fail"      the peer connection exists, the callback is refused
\*   "ok"
InitConnectionOutcomes == {"create_fail", "cb_fail", "ok"}
ff_webrtc_init_connection(o) ==
    CASE o = "create_fail" ->
            [ret |-> AVERROR_EXTERNAL, peer_connection |-> RTC_ERR_FAILURE,
             rtc |-> [pc |-> "none", cb |-> FALSE], live |-> {},
             ev |-> << <<"rtcDeletePeerConnection", RTC_ERR_FAILURE>> >>]
      [] o = "cb_fail" ->
            [ret |-> AVERROR_EXTERNAL, peer_connection |-> PcHandle,
             rtc |-> [pc |-> "deleted", cb |-> FALSE], live |-> {},
             ev |-> << <<"rtcDeletePeerConnection", PcHandle>> >>]
      [] OTHER ->
            [ret |-> 0, peer_connection |-> PcHandle,
             rtc |-> [pc |-> "live", cb |-> TRUE], live |-> {<<"pc", PcHandle>>},
             ev |-> <<>>]

\* ff_webrtc_init_urlcontext: the URLContext of track track_idx, or ENOMEM
ff_webrtc_init_urlcontext(trks, track_idx, ok) ==
    IF ok
    THEN [ret |-> 0,
          tracks |-> [trks EXCEPT ![track_idx + 1].rtp_url_context = TRUE]]
    ELSE [ret |-> AVERROR_ENOMEM, tracks |-> trks]

\* ff_webrtc_convert_codec: AVCodecID to rtcCodec, EINVAL for the rest
SupportedCodecs ==
    {"H264", "HEVC", "AV1", "VP8", "VP9", "OPUS", "AAC", "PCM_ALAW", "PCM_MULAW"}
ff_webrtc_convert_codec(codec_id) ==
    IF codec_id \in SupportedCodecs
    THEN [ret |-> 0, rtc_codec |-> codec_id]
    ELSE [ret |-> AVERROR_EINVAL, rtc_codec |-> "NONE"]

\* the releases ff_webrtc_deinit makes for track k (0-based) of trks
TrackReleases(trks, k) ==
    (IF trks[k + 1].rtp_ctx THEN << <<"avformat_free_context", k>> >> ELSE <<>>)
    \o (IF trks[k + 1].rtp_url_context THEN << <<"free_url_context", k>> >> ELSE <<>>)
    \o (IF trks[k + 1].track_id # 0
        THEN << <<"rtcDeleteTrack", trks[k + 1].track_id>> >> ELSE <<>>)

RECURSIVE TracksReleases(_, _, _)
\* for (i = k; i < n; ++i): the releases of tracks k..n-1, in loop order
TracksReleases(trks, k, n) ==
    IF k >= n THEN <<>>
    ELSE TrackReleases(trks, k) \o TracksReleases(trks, k + 1, n)

\* the resource a release event gives back
Released(e) ==
    CASE e[1] = "avformat_free_context" -> <<"rtp_ctx", e[2]>>
      [] e[1] = "free_url_context" -> <<"url_context", e[2]>>
      [] e[1] = "rtcDeleteTrack" -> <<"track", e[2]>>
      [] e[1] = "rtcDeletePeerConnection" -> <<"pc", e[2]>>
      [] e[1] = "free_tracks" -> <<"tracks", 0>>
      [] e[1] = "free_location" -> <<"location", 0>>
      [] OTHER -> <<"none", 0>>

\* a slip of ff_webrtc_deinit: peer_connection is not reset after the delete
ff_webrtc_deinit_keeps_pc(trks, n, pconn, loc) ==
    LET ev == (IF trks # NULL_TRACKS
               THEN TracksReleases(trks, 0, n) \o << <<"free_tracks", 0>> >>
               ELSE <<>>)
              \o (IF pconn # 0
                  THEN << <<"rtcDeletePeerConnection", pconn>> >> ELSE <<>>)
              \o (IF loc # NULL THEN << <<"free_location", 0>> >> ELSE <<>>)
    IN [tracks |-> NULL_TRACKS, peer_connection |-> pconn,
        resource_location |-> NULL, ev |-> ev,
        released |-> {Released(ev[k]) : k \in 1..Len(ev)}]

\* ff_webrtc_deinit: the tracks' sub-resources for i < nb_tracks, the track
\* array, the peer connection, the resource location
ff_webrtc_deinit(trks, n, pconn, loc) ==
    LET ev == (IF trks # NULL_TRACKS
               THEN TracksReleases(trks, 0, n) \o << <<"free_tracks", 0>> >>
               ELSE <<>>)
              \o (IF pconn # 0
                  THEN << <<"rtcDeletePeerConnection", pconn>> >> ELSE <<>>)
              \o (IF loc # NULL THEN << <<"free_location", 0>> >> ELSE <<>>)
    IN [tracks |-> NULL_TRACKS, peer_connection |-> 0, resource_location |-> NULL,
        ev |-> ev,
        released |-> {Released(ev[k]) : k \in 1..Len(ev)}]

\* the engine after the releases of ev
RtcAfter(r, released) ==
    IF <<"pc", PcHandle>> \in released /\ r.pc = "live"
    THEN [pc |-> "deleted", cb |-> FALSE]
    ELSE r

\* ff_webrtc_create_resource.  o says how far the exchange gets and what the
\* server and the engine answer:
\*   step      the first step that fails, or "answered" when the POST is
\*             answered with a body of o.body bytes
\*   accept    rtcSetRemoteDescription accepts what was read
\*   location  what av_opt_get(new_location) stores
\*   close_ok  ffurl_closep succeeds
CreateFailSteps ==
    {"set_local", "get_local", "ffurl_alloc", "headers", "ffurl_connect",
     "ffurl_read_complete"}
CreateOutcomes ==
    {[step |-> s, body |-> 0, accept |-> FALSE, location |-> "", close_ok |-> FALSE] :
        s \in CreateFailSteps}
    \cup [step : {"answered"}, body : 0..(SDP_MAX_SIZE + 1), accept : BOOLEAN,
          location : Locations, close_ok : BOOLEAN]

\* ffurl_read_complete(h, response_sdp, sizeof(response_sdp)): at most
\* sizeof(response_sdp) bytes of the body are read
ReadComplete(body) == IF body > SDP_MAX_SIZE THEN SDP_MAX_SIZE ELSE body

ff_webrtc_create_resource(o) ==
    LET none == [resource_location |-> NULL, http_body |-> "none",
                 remote_description |-> "none"]
        size == IF o.body > SDP_MAX_SIZE THEN "oversized" ELSE "fits"
        post == << <<"POST", 0>> >>
    IN CASE o.step \in {"set_local", "get_local"} ->
                [ret |-> AVERROR_EXTERNAL, ev |-> <<>>] @@ none
         [] o.step \in {"ffurl_alloc", "headers"} ->
                [ret |-> AVERROR_ENOMEM, ev |-> <<>>] @@ none
         [] o.step \in {"ffurl_connect", "ffurl_read_complete"} ->
                [ret |-> AVERROR_EIO, ev |-> post] @@ none
         [] OTHER ->
                IF ~(o.accept /\ o.body > 0)
                THEN [ret |-> RTC_ERR_FAILURE, ev |-> post,
                      resource_location |-> NULL, http_body |-> size,
                      remote_description |-> "none"]
                ELSE [ret |-> IF o.close_ok THEN 0 ELSE AVERROR_EIO,
                      ev |-> post, resource_location |-> o.location,
                      http_body |-> size,
                      remote_description |->
                          IF ReadComplete(o.body) = o.body THEN "whole"
                          ELSE "truncated"]

\* ff_webrtc_close_resource.  o is the step of the DELETE that fails, or "ok";
\* the event carries the number of the step that failed (1 ffurl_alloc,
\* 2 the headers, 3 ffurl_connect, 4 ffurl_closep), 0 when none did
DeleteOutcomes(loc, token) ==
    IF loc = "" THEN {"ffurl_alloc"}
    ELSE {"ffurl_alloc", "ffurl_connect", "ffurl_closep", "ok"}
         \cup (IF token THEN {"headers"} ELSE {})
DeleteStage(o) ==
    CASE o = "ffurl_alloc" -> 1
      [] o = "headers" -> 2
      [] o = "ffurl_connect" -> 3
      [] o = "ffurl_closep" -> 4
      [] OTHER -> 0
\* a slip of ff_webrtc_close_resource: a failed step returns at once, past
\* the av_freep of the fail label
ff_webrtc_close_resource_early_return(loc, o) ==
    IF loc = NULL
    THEN [ret |-> 0, resource_location |-> loc, ev |-> <<>>, released |-> {}]
    ELSE IF o = "ok"
    THEN [ret |-> 0, resource_location |-> NULL,
          ev |-> << <<"DELETE", DeleteStage(o)>> >>,
          released |-> {<<"location", 0>>}]
    ELSE [ret |-> IF o \in {"ffurl_alloc", "headers"} THEN AVERROR_ENOMEM
                  ELSE AVERROR_EIO,
          resource_location |-> loc,
          ev |-> << <<"DELETE", DeleteStage(o)>> >>,
          released |-> {}]

ff_webrtc_close_resource(loc, o) ==
    IF loc = NULL
    THEN [ret |-> 0, resource_location |-> loc, ev |-> <<>>, released |-> {}]
    ELSE [ret |-> CASE o \in {"ffurl_alloc", "headers"} -> AVERROR_ENOMEM
                    [] o \in {"ffurl_connect", "ffurl_closep"} -> AVERROR_EIO
                    [] OTHER -> 0,
          resource_location |-> NULL,
          ev |-> << <<"DELETE", DeleteStage(o)>> >>,
          released |-> {<<"location", 0>>}]

\* webrtc_on_state_change, run by the engine's thread while the peer
\* connection lives and the callback is registered
webrtc_on_state_change ==
    /\ rtc.pc = "live" /\ rtc.cb
    /\ \E s \in RtcStates \ {state} : state' = s
    /\ UNCHANGED <<role, streams, bearer_token, peer_connection, tracks,
                   nb_tracks, resource_location, pc, i, ret, now, timeout,
                   wait_result, interrupted_at, guard_read, last_read, pkt,
                   rtc, live, events, http_body, remote_description,
                   pub_streams, rtp_written, wcount, closes>>

(* --------------------------- the connect wait -------------------------- *)
\* while (state != RTC_CONNECTED) {
\*     if (state == RTC_FAILED || state == RTC_CLOSED || now > timeout) fail;
\*     av_usleep(1000);
\* }
\* Each test reads ctx->state on its own, and the engine's thread may write it
\* in between.  L names the caller's positions: L.guard, L.failed, L.closed,
\* L.time inside the loop, L.ok past it, L.fail at the fail label.
\* Past the loop neither the clock, nor the deadline, nor the caller's
\* interrupt callback is looked at again by the code modelled here.

cfgvars == <<role, streams, bearer_token>>
sidevars ==
    <<rtc, live, events, http_body, remote_description, pub_streams,
      rtp_written, wcount, closes, last_read, pkt>>

\* the three ways the connect wait treats a value of ctx->state: it ends in
\* success, it ends in failure, it goes on
WaitSees(st) ==
    CASE st = "RTC_CONNECTED" -> "connected"
      [] st \in {"RTC_FAILED", "RTC_CLOSED"} -> "failed"
      [] OTHER -> "pending"

\* a slip of the loop guard: RTC_CONNECTING ends the wait as RTC_CONNECTED does
ConnectWaitGuard_connecting(L) ==
    /\ pc = L.guard
    /\ guard_read' = WaitSees(state)
    /\ IF state \in {"RTC_CONNECTED", "RTC_CONNECTING"}
       THEN /\ pc' = L.ok /\ wait_result' = "connected"
            /\ now' = 0 /\ timeout' = 0 /\ interrupted_at' = "clear"
       ELSE pc' = L.failed /\ UNCHANGED <<wait_result, now, timeout,
                                          interrupted_at>>
    /\ UNCHANGED <<cfgvars, ctxvars, i, ret, sidevars>>

ConnectWaitGuard(L) ==
    /\ pc = L.guard
    /\ guard_read' = WaitSees(state)
    /\ IF state = "RTC_CONNECTED"
       THEN /\ pc' = L.ok /\ wait_result' = "connected"
            /\ now' = 0 /\ timeout' = 0 /\ interrupted_at' = "clear"
       ELSE pc' = L.failed /\ UNCHANGED <<wait_result, now, timeout,
                                          interrupted_at>>
    /\ UNCHANGED <<cfgvars, ctxvars, i, ret, sidevars>>

\* a slip of the wait loop: RTC_FAILED is not tested, only RTC_CLOSED and the
\* deadline end the wait
ConnectWaitFailed_untested(L) ==
    /\ pc = L.failed
    /\ pc' = L.closed
    /\ UNCHANGED <<ret, wait_result, interrupted_at, guard_read>>
    /\ UNCHANGED <<cfgvars, ctxvars, i, now, timeout, sidevars>>

ConnectWaitFailed(L) ==
    /\ pc = L.failed
    /\ IF state = "RTC_FAILED"
       THEN /\ pc' = L.fail /\ ret' = AVERROR_EXTERNAL
            /\ wait_result' = "failed_state" /\ interrupted_at' = "clear"
            /\ UNCHANGED guard_read
       ELSE pc' = L.closed /\ UNCHANGED <<ret, wait_result, interrupted_at,
                                          guard_read>>
    /\ UNCHANGED <<cfgvars, ctxvars, i, now, timeout, sidevars>>

\* a slip of the wait loop: RTC_DISCONNECTED ends the wait as RTC_CLOSED does
ConnectWaitClosed_disconnected(L) ==
    /\ pc = L.closed
    /\ IF state \in {"RTC_CLOSED", "RTC_DISCONNECTED"}
       THEN /\ pc' = L.fail /\ ret' = AVERROR_EXTERNAL
            /\ wait_result' = "failed_state" /\ interrupted_at' = "clear"
            /\ UNCHANGED guard_read
       ELSE pc' = L.time /\ UNCHANGED <<ret, wait_result, interrupted_at,
                                        guard_read>>
    /\ UNCHANGED <<cfgvars, ctxvars, i, now, timeout, sidevars>>

ConnectWaitClosed(L) ==
    /\ pc = L.closed
    /\ IF state = "RTC_CLOSED"
       THEN /\ pc' = L.fail /\ ret' = AVERROR_EXTERNAL
            /\ wait_result' = "failed_state" /\ interrupted_at' = "clear"
            /\ UNCHANGED guard_read
       ELSE pc' = L.time /\ UNCHANGED <<ret, wait_result, interrupted_at,
                                        guard_read>>
    /\ UNCHANGED <<cfgvars, ctxvars, i, now, timeout, sidevars>>

\* the deadline test, and av_usleep(1000) when it has not passed; the loop
\* reads nothing of avctx->interrupt_callback
ConnectWaitTime(L) ==
    /\ pc = L.time
    /\ IF now > timeout
       THEN /\ pc' = L.fail /\ ret' = AVERROR_EXTERNAL
            /\ wait_result' = "timeout" /\ interrupted_at' = "clear"
            /\ UNCHANGED guard_read
       ELSE pc' = L.guard /\ UNCHANGED <<ret, wait_result, interrupted_at,
                                         guard_read>>
    /\ UNCHANGED <<cfgvars, ctxvars, i, now, timeout, sidevars>>

WhipWait ==
    [guard |-> "whip_wait_guard", failed |-> "whip_wait_failed",
     closed |-> "whip_wait_closed", time |-> "whip_wait_time",
     ok |-> "whip_streaming", fail |-> "whip_header_failed"]
WhepWait ==
    [guard |-> "whep_wait_guard", failed |-> "whep_wait_failed",
     closed |-> "whep_wait_closed", time |-> "whep_wait_time",
     ok |-> "whep_setup", fail |-> "whep_fail"]
WaitLabels ==
    {WhipWait.guard, WhipWait.failed, WhipWait.closed, WhipWait.time,
     WhepWait.guard, WhepWait.failed, WhepWait.closed, WhepWait.time}

\* the clock av_gettime_relative reads moves on while the caller waits
Tick ==
    /\ pc \in WaitLabels
    /\ now <= timeout
    /\ now' = now + 1
    /\ UNCHANGED <<cfgvars, ctxvars, pc, i, ret, timeout, wait_result,
                   interrupted_at, guard_read, sidevars>>

\* the caller's interrupt callback begins to answer non-zero while open is
\* in the connect wait
Interrupt ==
    /\ pc \in WaitLabels
    /\ interrupted_at = "clear"
    /\ interrupted_at' = pc
    /\ UNCHANGED <<cfgvars, ctxvars, pc, i, ret, now, timeout, wait_result,
                   guard_read, sidevars>>

(* ------------------------------ WHIP muxer ----------------------------- *)

\* whip_init up to the stream loop: ff_webrtc_init_connection, the track
\* array (nb_tracks is left as it was), the media stream id
whip_init ==
    /\ pc = "whip_init"
    /\ \E o \in InitConnectionOutcomes, alloc_ok \in BOOLEAN, msid_ok \in BOOLEAN :
        LET c == ff_webrtc_init_connection(o)
            n == Len(streams)
        IN /\ peer_connection' = c.peer_connection
           /\ rtc' = c.rtc
           /\ events' = Log(events, c.ev)
           /\ IF c.ret < 0
              THEN /\ alloc_ok /\ msid_ok
                   /\ ret' = c.ret /\ pc' = "whip_init_failed"
                   /\ live' = live \cup c.live
                   /\ UNCHANGED tracks
              ELSE IF ~alloc_ok
              THEN /\ msid_ok
                   /\ ret' = AVERROR_ENOMEM /\ pc' = "whip_init_failed"
                   /\ live' = live \cup c.live
                   /\ UNCHANGED tracks
              ELSE /\ tracks' = [k \in 1..n |-> WebRTCTrack]
                   /\ live' = live \cup c.live \cup {<<"tracks", 0>>}
                   /\ IF msid_ok
                      THEN ret' = 0 /\ pc' = "whip_init_stream"
                      ELSE ret' = AVERROR_EIO /\ pc' = "whip_init_failed"
    /\ i' = 0
    /\ UNCHANGED <<cfgvars, state, nb_tracks, resource_location, now, timeout,
                   wait_result, interrupted_at, guard_read, last_read, pkt,
                   http_body, remote_description, pub_streams, rtp_written,
                   wcount, closes>>

\* one pass of the loop of whip_init over stream idx.  o is the call that
\* fails ("none": all succeed): "urlcontext" ff_webrtc_init_urlcontext,
\* "mux_open" ff_rtp_chain_mux_open, "sdp_write" ff_sdp_write_media,
\* "add_track" rtcAddTrackEx.  skip: the stream is passed over (continue).
StreamOutcomes == {"none", "urlcontext", "mux_open", "sdp_write", "add_track"}
whip_init_stream_body(trks, st, idx, o) ==
    LET quiet == [tracks |-> trks, live |-> {}, ev |-> <<>>, skip |-> FALSE]
        u == ff_webrtc_init_urlcontext(trks, idx, o # "urlcontext")
        withurl == [quiet EXCEPT !.tracks = u.tracks,
                                 !.live = {<<"url_context", idx>>}]
        withrtp == [withurl EXCEPT !.tracks[idx + 1].rtp_ctx = TRUE,
                                   !.live = @ \cup {<<"rtp_ctx", idx>>}]
        cv == ff_webrtc_convert_codec(st.codec_id)
    IN IF st.codec_type = "AUDIO" /\ st.sample_rate # 48000
       THEN [ret |-> AVERROR_EINVAL] @@ quiet
       ELSE IF st.codec_type = "AUDIO" /\ ~st.stereo
       THEN [ret |-> AVERROR_EINVAL] @@ quiet
       ELSE IF st.codec_type \notin {"VIDEO", "AUDIO"}
       THEN [ret |-> 0] @@ [quiet EXCEPT !.skip = TRUE]
       ELSE IF u.ret < 0
       THEN [ret |-> u.ret] @@ quiet
       ELSE IF o = "mux_open"
       THEN [ret |-> AVERROR_EIO] @@ withurl
       ELSE IF cv.ret < 0
       THEN [ret |-> cv.ret] @@ withrtp
       ELSE IF o = "sdp_write"
       THEN [ret |-> AVERROR_EIO] @@ withrtp
       ELSE IF o = "add_track"
       THEN [ret |-> AVERROR_EINVAL]
            @@ [withrtp EXCEPT !.tracks[idx + 1].track_id = RTC_ERR_FAILURE]
       ELSE [ret |-> 0]
            @@ [withrtp EXCEPT !.tracks[idx + 1].track_id = TrackHandle(idx),
                               !.live = @ \cup {<<"track", TrackHandle(idx)>>},
                               !.ev = << <<"rtcAddTrackEx", idx>> >>]

whip_init_stream ==
    /\ pc = "whip_init_stream"
    /\ i < Len(streams)
    /\ \E o \in StreamOutcomes :
        LET r == whip_init_stream_body(tracks, streams[i + 1], i, o)
        IN /\ tracks' = r.tracks
           /\ live' = live \cup r.live
           /\ events' = Log(events, r.ev)
           /\ ret' = r.ret
           /\ IF r.ret < 0
              THEN pc' = "whip_init_failed" /\ UNCHANGED i
              ELSE /\ i' = i + 1
                   /\ pc' = IF i + 1 < Len(streams) THEN "whip_init_stream"
                            ELSE "whip_inited"
    /\ UNCHANGED <<cfgvars, peer_connection, state, nb_tracks,
                   resource_location, now, timeout, wait_result,
                   interrupted_at, guard_read, last_read, pkt, rtc, http_body,
                   remote_description, pub_streams, rtp_written, wcount,
                   closes>>

\* whip_write_header: ff_webrtc_create_resource, then the connect wait
whip_write_header ==
    /\ pc = "whip_inited"
    /\ \E o \in CreateOutcomes :
        LET r == ff_webrtc_create_resource(o)
        IN /\ ret' = r.ret
           /\ resource_location' = r.resource_location
           /\ events' = Log(events, r.ev)
           /\ http_body' = r.http_body
           /\ remote_description' = r.remote_description
           /\ live' = live \cup (IF r.resource_location # NULL
                                 THEN {<<"location", 0>>} ELSE {})
           /\ IF r.ret < 0
              THEN pc' = "whip_header_failed" /\ UNCHANGED timeout
              ELSE pc' = WhipWait.guard /\ timeout' = now + ConnectionTimeout
    /\ UNCHANGED <<cfgvars, peer_connection, state, tracks, nb_tracks, i, now,
                   wait_result, interrupted_at, guard_read, last_read, pkt, rtc,
                   pub_streams, rtp_written, wcount, closes>>

whip_wait_guard == ConnectWaitGuard(WhipWait)
whip_wait_failed == ConnectWaitFailed(WhipWait)
whip_wait_closed == ConnectWaitClosed(WhipWait)
whip_wait_time == ConnectWaitTime(WhipWait)

\* whip_write_packet(pkt) with pkt->stream_index = idx on entry.  The RTP
\* writer is looked up by idx, pkt->stream_index is set to 0, then the state
\* is tested; av_write_frame on a NULL writer ends the process.
\* sent: the writer's webrtc_write succeeds.
\* ub: what the lookup does when ctx->tracks is NULL, an access through a
\* null pointer: it ends the process ("fault") or yields a pointer that is no
\* writer ("wild"), on which av_write_frame ends the process.
WriteFault == [ret |-> 0, written |-> <<>>, stream_index |-> 0, crash |-> TRUE]

\* a slip of whip_write_packet: the state test is left out
whip_write_packet_body_nocheck(trks, st, idx, sent, ub) ==
    IF trks = NULL_TRACKS
    THEN WriteFault
    ELSE IF ~trks[idx + 1].rtp_ctx
    THEN WriteFault
    ELSE [ret |-> IF sent THEN 0 ELSE AVERROR_EXTERNAL,
          written |-> <<idx>>, stream_index |-> 0, crash |-> FALSE]

whip_write_packet_body(trks, st, idx, sent, ub) ==
    IF trks = NULL_TRACKS /\ ub = "fault"
    THEN WriteFault
    ELSE IF st # "RTC_CONNECTED"
    THEN [ret |-> AVERROR_EINVAL, written |-> <<>>, stream_index |-> 0,
          crash |-> FALSE]
    ELSE IF trks = NULL_TRACKS
    THEN WriteFault
    ELSE IF ~trks[idx + 1].rtp_ctx
    THEN WriteFault
    ELSE [ret |-> IF sent THEN 0 ELSE AVERROR_EXTERNAL,
          written |-> <<idx>>, stream_index |-> 0, crash |-> FALSE]

\* the caller writes a new packet addressed to one of its streams, or, when
\* the last write was rejected with AVERROR(EINVAL), may hand the same packet
\* in again as the call left it.  Nothing in the muxer stops a caller from
\* writing again after the trailer and whip_deinit.
whip_write_packet ==
    /\ pc \in {"whip_streaming", "whip_closed"}
    /\ wcount < MaxWrites
    /\ \E addressed \in 0..(Len(streams) - 1), retry \in BOOLEAN,
          sent \in BOOLEAN, ub \in {"fault", "wild"} :
        LET idx == IF retry THEN pkt.stream_index ELSE addressed
            w == whip_write_packet_body(tracks, state, idx, sent, ub)
        IN /\ retry => /\ wcount > 0 /\ ret = AVERROR_EINVAL
                       /\ addressed = pkt.addressed
           /\ (w.written = <<>> => sent)
           /\ (tracks # NULL_TRACKS => ub = "fault")
           /\ rtp_written' = rtp_written \o w.written
           /\ IF w.crash
              THEN pc' = "crashed" /\ UNCHANGED <<ret, pkt>>
              ELSE /\ ret' = w.ret /\ UNCHANGED pc
                   /\ pkt' = [addressed |-> addressed,
                              stream_index |-> w.stream_index]
    /\ wcount' = wcount + 1
    /\ UNCHANGED <<cfgvars, ctxvars, i, now, timeout, wait_result,
                   interrupted_at, guard_read, last_read, rtc, live, events,
                   http_body, remote_description, pub_streams, closes>>

\* whip_write_trailer: ff_webrtc_close_resource and nothing else
whip_write_trailer ==
    /\ pc \in {"whip_streaming", "whip_closed"}
    /\ closes < MaxCloses
    /\ \E o \in DeleteOutcomes(resource_location, bearer_token) :
        LET r == ff_webrtc_close_resource(resource_location, o)
        IN /\ resource_location = NULL => o = "ffurl_alloc"
           /\ ret' = r.ret
           /\ resource_location' = r.resource_location
           /\ events' = Log(events, r.ev)
           /\ live' = live \ r.released
    /\ pc' = "whip_trailer_done"
    /\ UNCHANGED <<cfgvars, peer_connection, state, tracks, nb_tracks, i, now,
                   timeout, wait_result, interrupted_at, guard_read,
                   last_read, pkt, rtc, http_body, remote_description,
                   pub_streams, rtp_written, wcount, closes>>

\* a slip of the teardown: it marks the session closed in ctx->state
whip_deinit_resets_state ==
    /\ pc \in {"whip_init_failed", "whip_header_failed", "whip_trailer_done"}
    /\ LET d == ff_webrtc_deinit(tracks, nb_tracks, peer_connection,
                                 resource_location)
       IN /\ tracks' = d.tracks
          /\ peer_connection' = d.peer_connection
          /\ resource_location' = d.resource_location
          /\ events' = Log(events, d.ev)
          /\ live' = live \ d.released
          /\ rtc' = RtcAfter(rtc, d.released)
    /\ state' = "RTC_CLOSED"
    /\ IF pc = "whip_trailer_done"
       THEN pc' = "whip_closed" /\ closes' = closes + 1
       ELSE pc' = "whip_failed" /\ UNCHANGED closes
    /\ guard_read' = "none"
    /\ UNCHANGED <<cfgvars, nb_tracks, i, ret, now, timeout, wait_result,
                   interrupted_at, last_read, pkt, http_body,
                   remote_description, pub_streams, rtp_written, wcount>>

\* whip_deinit: ff_webrtc_deinit.  The muxer framework runs it after a failed
\* init or write_header and after the trailer.
whip_deinit ==
    /\ pc \in {"whip_init_failed", "whip_header_failed", "whip_trailer_done"}
    /\ LET d == ff_webrtc_deinit(tracks, nb_tracks, peer_connection,
                                 resource_location)
       IN /\ tracks' = d.tracks
          /\ peer_connection' = d.peer_connection
          /\ resource_location' = d.resource_location
          /\ events' = Log(events, d.ev)
          /\ live' = live \ d.released
          /\ rtc' = RtcAfter(rtc, d.released)
    /\ IF pc = "whip_trailer_done"
       THEN pc' = "whip_closed" /\ closes' = closes + 1
       ELSE pc' = "whip_failed" /\ UNCHANGED closes
    /\ guard_read' = "none"
    /\ UNCHANGED <<cfgvars, state, nb_tracks, i, ret, now, timeout,
                   wait_result, interrupted_at, last_read, pkt,
                   http_body, remote_description, pub_streams, rtp_written,
                   wcount>>

(* ----------------------------- WHEP demuxer ---------------------------- *)

\* whep_read_header up to the two rtcAddTrackEx calls:
\* ff_webrtc_init_connection, the media stream id, the array of two tracks
\* (nb_tracks = 2 is stored before the allocation is tested)
whep_read_header ==
    /\ pc = "whep_read_header"
    /\ \E o \in InitConnectionOutcomes, msid_ok \in BOOLEAN, alloc_ok \in BOOLEAN :
        LET c == ff_webrtc_init_connection(o)
        IN /\ peer_connection' = c.peer_connection
           /\ rtc' = c.rtc
           /\ events' = Log(events, c.ev)
           /\ IF c.ret < 0
              THEN /\ msid_ok /\ alloc_ok
                   /\ ret' = c.ret /\ pc' = "whep_fail"
                   /\ live' = live \cup c.live
                   /\ UNCHANGED <<tracks, nb_tracks>>
              ELSE IF ~msid_ok
              THEN /\ alloc_ok
                   /\ ret' = AVERROR_EIO /\ pc' = "whep_fail"
                   /\ live' = live \cup c.live
                   /\ UNCHANGED <<tracks, nb_tracks>>
              ELSE /\ nb_tracks' = 2
                   /\ IF alloc_ok
                      THEN /\ tracks' = [k \in 1..2 |-> WebRTCTrack]
                           /\ live' = live \cup c.live \cup {<<"tracks", 0>>}
                           /\ ret' = 0 /\ pc' = "whep_add_tracks"
                      ELSE /\ UNCHANGED tracks
                           /\ live' = live \cup c.live
                           /\ ret' = AVERROR_ENOMEM /\ pc' = "whep_fail"
    /\ i' = 0
    /\ UNCHANGED <<cfgvars, state, resource_location, now, timeout,
                   wait_result, interrupted_at, guard_read, last_read, pkt,
                   http_body, remote_description, pub_streams, rtp_written,
                   wcount, closes>>

\* rtcAddTrackEx for track idx: the new handle, or a negative error when the
\* engine refuses the track
rtcAddTrackEx(idx, accepted) ==
    IF accepted THEN TrackHandle(idx) ELSE RTC_ERR_FAILURE

\* the video track (0), then the audio track (1); each is given up only when
\* the stored handle is 0
whep_add_tracks ==
    /\ pc = "whep_add_tracks"
    /\ \E video \in BOOLEAN, audio \in BOOLEAN :
        LET v == rtcAddTrackEx(0, video)
            a == rtcAddTrackEx(1, audio)
        IN IF v = 0
           THEN /\ audio
                /\ tracks' = [tracks EXCEPT ![1].track_id = v]
                /\ ret' = AVERROR_EXTERNAL /\ pc' = "whep_fail"
                /\ UNCHANGED <<live, events>>
           ELSE /\ tracks' = [tracks EXCEPT ![1].track_id = v, ![2].track_id = a]
                /\ live' = live
                     \cup (IF v > 0 THEN {<<"track", v>>} ELSE {})
                     \cup (IF a > 0 THEN {<<"track", a>>} ELSE {})
                /\ events' = Log(events,
                       (IF v > 0 THEN << <<"rtcAddTrackEx", 0>> >> ELSE <<>>)
                       \o (IF a > 0 THEN << <<"rtcAddTrackEx", 1>> >> ELSE <<>>))
                /\ IF a = 0
                   THEN ret' = AVERROR_EXTERNAL /\ pc' = "whep_fail"
                   ELSE ret' = 0 /\ pc' = "whep_create_resource"
    /\ UNCHANGED <<cfgvars, peer_connection, state, nb_tracks,
                   resource_location, i, now, timeout, wait_result,
                   interrupted_at, guard_read, last_read, pkt, rtc, http_body,
                   remote_description, pub_streams, rtp_written, wcount,
                   closes>>

\* ff_webrtc_create_resource, then the connect wait
whep_create_resource ==
    /\ pc = "whep_create_resource"
    /\ \E o \in CreateOutcomes :
        LET r == ff_webrtc_create_resource(o)
        IN /\ ret' = r.ret
           /\ resource_location' = r.resource_location
           /\ events' = Log(events, r.ev)
           /\ http_body' = r.http_body
           /\ remote_description' = r.remote_description
           /\ live' = live \cup (IF r.resource_location # NULL
                                 THEN {<<"location", 0>>} ELSE {})
           /\ IF r.ret < 0
              THEN pc' = "whep_fail" /\ UNCHANGED timeout
              ELSE pc' = WhepWait.guard /\ timeout' = now + ConnectionTimeout
    /\ UNCHANGED <<cfgvars, peer_connection, state, tracks, nb_tracks, i, now,
                   wait_result, interrupted_at, guard_read, last_read, pkt, rtc,
                   pub_streams, rtp_written, wcount, closes>>

whep_wait_guard == ConnectWaitGuard(WhepWait)
whep_wait_failed == ConnectWaitFailed(WhepWait)
whep_wait_closed == ConnectWaitClosed(WhepWait)
whep_wait_time == ConnectWaitTime(WhepWait)

\* one pass of the per-track loop of whep_read_header for track idx.  o is
\* the call that fails ("none": all succeed).  rtcGetTrackDescription
\* returns the length of the description, which stays in ret until the next
\* assignment; it fails on a handle the engine does not know.
SetupOutcomes ==
    {"none", "get_description", "find_format", "alloc_context",
     "copy_whiteblacklists", "open_input", "urlcontext", "fdopen",
     "new_stream", "parameters_copy"}
whep_setup_track_body(trks, idx, o, alive) ==
    LET quiet == [tracks |-> trks, live |-> {}, stream |-> FALSE, fail |-> TRUE]
        withrtp == [quiet EXCEPT !.tracks[idx + 1].rtp_ctx = TRUE,
                                 !.live = {<<"rtp_ctx", idx>>}]
        u == ff_webrtc_init_urlcontext(withrtp.tracks, idx, o # "urlcontext")
        withurl == [withrtp EXCEPT !.tracks = u.tracks,
                                   !.live = @ \cup {<<"url_context", idx>>}]
        withstream == [withurl EXCEPT !.stream = TRUE]
    IN IF o = "get_description" \/ <<"track", trks[idx + 1].track_id>> \notin alive
       THEN [ret |-> RTC_ERR_FAILURE] @@ quiet
       ELSE IF o = "find_format"
       THEN [ret |-> SDP_MAX_SIZE] @@ quiet
       ELSE IF o = "alloc_context"
       THEN [ret |-> AVERROR_ENOMEM] @@ quiet
       ELSE IF o = "copy_whiteblacklists"
       THEN [ret |-> AVERROR_ENOMEM] @@ withrtp
       ELSE IF o = "open_input"
       THEN [ret |-> AVERROR_EIO] @@ quiet
       ELSE IF u.ret < 0
       THEN [ret |-> u.ret] @@ withrtp
       ELSE IF o = "fdopen"
       THEN [ret |-> AVERROR_ENOMEM] @@ withurl
       ELSE IF o = "new_stream"
       THEN [ret |-> AVERROR_ENOMEM] @@ withurl
       ELSE IF o = "parameters_copy"
       THEN [ret |-> AVERROR_ENOMEM] @@ withstream
       ELSE [ret |-> 0] @@ [withstream EXCEPT !.fail = FALSE]

whep_setup_track ==
    /\ pc = "whep_setup"
    /\ i < nb_tracks
    /\ \E o \in SetupOutcomes :
        LET r == whep_setup_track_body(tracks, i, o, live)
        IN /\ tracks' = r.tracks
           /\ live' = live \cup r.live
           /\ ret' = r.ret
           /\ pub_streams' = IF r.stream THEN Append(pub_streams, i)
                             ELSE pub_streams
           /\ IF r.fail
              THEN pc' = "whep_fail" /\ UNCHANGED i
              ELSE /\ i' = i + 1
                   /\ pc' = IF i + 1 < nb_tracks THEN "whep_setup"
                            ELSE "whep_opened"
    /\ UNCHANGED <<cfgvars, peer_connection, state, nb_tracks,
                   resource_location, now, timeout, wait_result,
                   interrupted_at, guard_read, last_read, pkt, rtc, events,
                   http_body, remote_description, rtp_written, wcount,
                   closes>>

\* the fail label of whep_read_header: ff_webrtc_deinit, return ret.  The
\* caller takes a negative value for failure and anything else for success.
whep_fail ==
    /\ pc = "whep_fail"
    /\ LET d == ff_webrtc_deinit(tracks, nb_tracks, peer_connection,
                                 resource_location)
       IN /\ tracks' = d.tracks
          /\ peer_connection' = d.peer_connection
          /\ resource_location' = d.resource_location
          /\ events' = Log(events, d.ev)
          /\ live' = live \ d.released
          /\ rtc' = RtcAfter(rtc, d.released)
    /\ pc' = IF ret < 0 THEN "whep_failed" ELSE "whep_opened"
    /\ guard_read' = "none"
    /\ UNCHANGED <<cfgvars, state, nb_tracks, i, ret, now, timeout,
                   wait_result, interrupted_at, last_read, pkt,
                   http_body, remote_description, pub_streams, rtp_written,
                   wcount, closes>>

\* whep_read_close: ff_webrtc_close_resource, ff_webrtc_deinit, return what
\* the former returned
whep_read_close ==
    /\ pc \in {"whep_opened", "whep_closed"}
    /\ closes < MaxCloses
    /\ \E o \in DeleteOutcomes(resource_location, bearer_token) :
        LET r == ff_webrtc_close_resource(resource_location, o)
            d == ff_webrtc_deinit(tracks, nb_tracks, peer_connection,
                                  r.resource_location)
        IN /\ resource_location = NULL => o = "ffurl_alloc"
           /\ ret' = r.ret
           /\ tracks' = d.tracks
           /\ peer_connection' = d.peer_connection
           /\ resource_location' = d.resource_location
           /\ events' = Log(events, r.ev \o d.ev)
           /\ live' = (live \ r.released) \ d.released
           /\ rtc' = RtcAfter(rtc, d.released)
    /\ pc' = "whep_closed"
    /\ closes' = closes + 1
    /\ UNCHANGED <<cfgvars, state, nb_tracks, i, now, timeout, wait_result,
                   interrupted_at, guard_read, last_read, pkt, http_body,
                   remote_description, pub_streams, rtp_written, wcount>>

\* what rtcReceiveMessage can answer
RecvOutcomes == {"RTC_ERR_SUCCESS", "RTC_ERR_NOT_AVAIL", "RTC_ERR_TOO_SMALL",
                 "RTC_ERR_FAILURE", "RTC_ERR_INVALID"}

\* a slip of webrtc_read: RTC_ERR_TOO_SMALL is not told apart from the other
\* errors
webrtc_read_no_too_small(o, size) ==
    CASE o = "RTC_ERR_NOT_AVAIL" -> AVERROR_EAGAIN
      [] o = "RTC_ERR_SUCCESS" -> size
      [] OTHER -> AVERROR_EOF

\* webrtc_read: what the transport binding of a track returns for the answer
\* o of rtcReceiveMessage, which has stored the length of the message in size;
\* one message is one RTP packet
webrtc_read(o, size) ==
    CASE o = "RTC_ERR_NOT_AVAIL" -> AVERROR_EAGAIN
      [] o = "RTC_ERR_TOO_SMALL" -> AVERROR_BUFFER_TOO_SMALL
      [] o = "RTC_ERR_SUCCESS" -> size
      [] OTHER -> AVERROR_EOF

\* whep_read_packet(pkt) with pkt->stream_index = idx on entry: the track is
\* looked up by idx, pkt->stream_index is set to 0, and av_read_frame on the
\* track's RTP reader fills the packet from what webrtc_read gives it (the
\* reader has one stream, so the packet it fills carries index 0), or
\* returns the error.  A NULL track array or RTP reader ends the process.
whep_read_packet_body(trks, idx, o, size) ==
    IF trks = NULL_TRACKS \/ ~trks[idx + 1].rtp_ctx
    THEN [ret |-> 0, track |-> -1, stream_index |-> 0, bytes |-> 0,
          crash |-> TRUE]
    ELSE IF webrtc_read(o, size) > 0
    THEN [ret |-> 0, track |-> idx, stream_index |-> 0,
          bytes |-> webrtc_read(o, size), crash |-> FALSE]
    ELSE [ret |-> webrtc_read(o, size), track |-> -1, stream_index |-> 0,
          bytes |-> webrtc_read(o, size), crash |-> FALSE]

\* ready: the tracks whose transport has a message when the read runs;
\* size: the length of the message of track idx, 0 when it has none.  The
\* engine hands over a message that fits the reader's buffer of
\* RTP_MAX_PACKET_SIZE bytes, answers RTC_ERR_TOO_SMALL for a longer one and
\* RTC_ERR_NOT_AVAIL when there is none, or fails.
whep_read_packet ==
    /\ pc = "whep_opened"
    /\ \E idx \in BlankPacketIndex, ready \in SUBSET {0, 1},
          size \in 0..(RTP_MAX_PACKET_SIZE + 1), o \in RecvOutcomes :
        LET r == whep_read_packet_body(tracks, idx, o, size)
        IN /\ (idx \in ready) = (size > 0)
           /\ o = "RTC_ERR_SUCCESS" => size \in 1..RTP_MAX_PACKET_SIZE
           /\ o = "RTC_ERR_TOO_SMALL" => size > RTP_MAX_PACKET_SIZE
           /\ o = "RTC_ERR_NOT_AVAIL" => size = 0
           /\ IF r.crash
              THEN /\ ready = {} /\ o = "RTC_ERR_NOT_AVAIL"
                   /\ pc' = "crashed" /\ UNCHANGED <<ret, last_read>>
              ELSE /\ ret' = r.ret
                   /\ last_read' = [ready |-> ready, track |-> r.track,
                                    stream_index |-> r.stream_index,
                                    recv |-> o, size |-> size,
                                    bytes |-> r.bytes]
                   /\ UNCHANGED pc
    /\ UNCHANGED <<cfgvars, ctxvars, i, now, timeout, wait_result,
                   interrupted_at, guard_read, pkt, rtc, live, events,
                   http_body, remote_description, pub_streams, rtp_written,
                   wcount, closes>>

(* --------------------------- the specification ------------------------- *)
Next ==
    \/ webrtc_on_state_change
    \/ Tick
    \/ Interrupt
    \/ whip_init
    \/ whip_init_stream
    \/ whip_write_header
    \/ whip_wait_guard
    \/ whip_wait_failed
    \/ whip_wait_closed
    \/ whip_wait_time
    \/ whip_write_packet
    \/ whip_write_trailer
    \/ whip_deinit
    \/ whep_read_header
    \/ whep_add_tracks
    \/ whep_create_resource
    \/ whep_wait_guard
    \/ whep_wait_failed
    \/ whep_wait_closed
    \/ whep_wait_time
    \/ whep_setup_track
    \/ whep_fail
    \/ whep_read_packet
    \/ whep_read_close

Spec == Init /\ [][Next]_vars

TypeOK ==
    /\ role \in {"whip", "whep"}
    /\ state \in RtcStates
    /\ nb_tracks \in {0, 2}
    /\ resource_location \in {NULL} \cup Locations
    /\ now \in 0..(ConnectionTimeout + 1)
    /\ wcount \in 0..MaxWrites
    /\ closes \in 0..MaxCloses
    /\ Len(rtp_written) <= wcount
    /\ interrupted_at \in {"clear"} \cup WaitLabels
    /\ guard_read \in {"none", "connected", "failed", "pending"}
    /\ pkt \in [addressed : -1..(MaxStreams - 1), stream_index : {-1, 0}]
    /\ last_read.ready \subseteq {0, 1}
    /\ last_read.track \in {-1, 0, 1}
    /\ last_read.recv \in RecvOutcomes \cup {"none"}
    /\ last_read.size \in 0..(RTP_MAX_PACKET_SIZE + 1)

(* ------------------------------ properties ----------------------------- *)

\* the per-track resources still allocated: RTP contexts (codec sessions),
\* URLContexts (transport bindings), engine track handles
TrackResources == {r \in live : r[1] \in {"rtp_ctx", "url_context", "track"}}

\* how many events of the given kind the log holds
Count(kind) == Cardinality({k \in 1..Len(events) : events[k][1] = kind})

\* the DELETE of the log that failed at some step
DeleteFailed == \E k \in 1..Len(events) : events[k][1] = "DELETE" /\ events[k][2] # 0

\* C1: a whip_write_packet issued on an open session while the mirrored
\* state is not RTC_CONNECTED returns AVERROR(EINVAL) and hands nothing to an
\* RTP writer,
\* and no step other than a write ever hands a packet to a writer (nothing
\* is kept back for later delivery).
C1_WriteRejectedUnlessConnected ==
    [][/\ (wcount' # wcount /\ pc = "whip_streaming" /\ state # "RTC_CONNECTED")
            => (ret' = AVERROR_EINVAL /\ rtp_written' = rtp_written)
       /\ (wcount' = wcount) => (rtp_written' = rtp_written)]_vars

\* a write was rejected on an open session whose state was no longer
\* RTC_CONNECTED
C1_Witness ==
    /\ pc = "whip_streaming" /\ wcount = 1
    /\ ret = AVERROR_EINVAL /\ rtp_written = <<>>
    /\ state = "RTC_DISCONNECTED"

\* C2 (as claimed): once an ingest session that added at least one track is
\* closed (whip_write_trailer, then whip_deinit), no RTP context, URLContext
\* or track handle of it is still allocated.
C2_TracksReleasedAfterClose ==
    (pc = "whip_closed" /\ Count("rtcAddTrackEx") >= 1) => TrackResources = {}

\* C3 (as claimed): in both roles, when the connect wait ends on the
\* deadline, open returns an error and after the teardown no track handle,
\* URLContext or RTP context is still allocated.
C3_NothingLeftAfterTimeout ==
    (wait_result = "timeout" /\ pc \in {"whip_failed", "whep_failed"})
        => (ret < 0 /\ TrackResources = {})

\* C4: after the first close of a session, nothing changes any more: a
\* second close sends no DELETE, releases nothing again and leaves the
\* context, the engine and the allocations as they were.
C4_SecondCloseIsNoOp ==
    [][closes >= 1 =>
        UNCHANGED <<peer_connection, state, tracks, nb_tracks,
                    resource_location, rtc, live, events>>]_vars

\* a second close has run on a session whose first close sent a DELETE and
\* deleted the peer connection
C4_Witness ==
    /\ closes = 2
    /\ Count("DELETE") = 1
    /\ \E k \in 1..Len(events) : events[k] = <<"rtcDeletePeerConnection", PcHandle>>

\* C5 (as claimed): when whip_init accepts a list of N streams, every stream
\* i has track i with a handle, a URLContext and an RTP writer, and exactly N
\* tracks were added to the peer connection, in stream order.
C5_OneTrackPerStream ==
    pc = "whip_inited" =>
        /\ Len(tracks) = Len(streams)
        /\ \A k \in 1..Len(streams) :
              /\ tracks[k].track_id = TrackHandle(k - 1)
              /\ tracks[k].rtp_ctx /\ tracks[k].rtp_url_context
        /\ Count("rtcAddTrackEx") = Len(streams)

\* C6 (as claimed): whenever whep_read_header returns a non-negative value,
\* the session has two tracks and two public streams, stream 0 from track 0
\* and stream 1 from track 1.
C6_TwoStreamsAfterOpen ==
    pc = "whep_opened" => (Len(tracks) = 2 /\ pub_streams = <<0, 1>>)

\* C7: in either role, a pass of the wait loop whose test reads RTC_FAILED or
\* RTC_CLOSED goes to the fail label with AVERROR_EXTERNAL at that pass,
\* whatever the clock says; and once a wait has failed the session never
\* comes back to the signaling exchange or to the wait.
C7_FailedStateEndsWait ==
    [][\A L \in {WhipWait, WhepWait} :
        /\ (pc = L.failed /\ pc' # pc /\ state = "RTC_FAILED")
              => (pc' = L.fail /\ ret' = AVERROR_EXTERNAL)
        /\ (pc = L.closed /\ pc' # pc /\ state = "RTC_CLOSED")
              => (pc' = L.fail /\ ret' = AVERROR_EXTERNAL)
        /\ (wait_result \in {"failed_state", "timeout"})
              => /\ pc' \notin WaitLabels \cup {"whip_inited", "whep_create_resource"}
                 /\ Count("POST") = 1 /\ events' # Append(events, <<"POST", 0>>)]_vars

\* the wait has failed on the state it read, before the deadline
C7_Witness ==
    /\ wait_result = "failed_state"
    /\ pc \in {WhipWait.fail, WhepWait.fail}
    /\ now <= timeout
    /\ ret = AVERROR_EXTERNAL

\* C8 (as claimed): when the POST is answered with a body larger than the
\* description buffer, nothing is applied as the remote description, open
\* does not succeed, and after the teardown nothing is still allocated.
C8_OversizedAnswerRejected ==
    http_body = "oversized" =>
        /\ remote_description = "none"
        /\ pc \notin {"whip_streaming", "whep_setup", "whep_opened"}
        /\ pc \in {"whip_failed", "whep_failed"} => live = {}

\* the steps that run ff_webrtc_close_resource
CloseResourceStep ==
    \/ pc # "whip_trailer_done" /\ pc' = "whip_trailer_done"
    \/ role = "whep" /\ closes' = closes + 1

\* C9: ff_webrtc_close_resource sends nothing and returns 0 when
\* resource_location is unset; when it is set a DELETE is attempted and
\* resource_location is unset on return, whichever step failed.
C9_DeleteResource ==
    [][CloseResourceStep =>
        /\ resource_location = NULL
              => (ret' = 0 /\ Count("DELETE")' = Count("DELETE"))
        /\ resource_location # NULL
              => /\ Count("DELETE")' = Count("DELETE") + 1
                 /\ events'[Len(events) + 1][1] = "DELETE"
                 /\ resource_location' = NULL]_vars

\* the trailer has run a DELETE that failed while building its headers, and
\* resource_location is unset
C9_Witness ==
    /\ pc = "whip_trailer_done"
    /\ events[Len(events)] = <<"DELETE", 2>>
    /\ ret < 0
    /\ resource_location = NULL

\* C10 (as claimed): when the DELETE fails during close, the close still
\* returns success and everything local is released.
C10_CloseSucceedsWhenDeleteFails ==
    (closes = 1 /\ pc \in {"whip_closed", "whep_closed"} /\ DeleteFailed)
        => (ret >= 0 /\ live = {})

\* the events that give a local resource back
LocalReleases ==
    {"avformat_free_context", "free_url_context", "rtcDeleteTrack",
     "free_tracks", "rtcDeletePeerConnection"}

\* the order the log shows: per track the RTP context, then the URLContext,
\* then the track handle; every track release before the peer connection;
\* every DELETE before every local release
ReleaseOrder ==
    \A j, k \in 1..Len(events) :
        /\ (/\ events[j][1] = "avformat_free_context"
            /\ events[k] = <<"free_url_context", events[j][2]>>) => j < k
        /\ (/\ events[j][1] \in {"avformat_free_context", "free_url_context"}
            /\ events[k] = <<"rtcDeleteTrack", TrackHandle(events[j][2])>>)
              => j < k
        /\ (/\ events[j][1] \in {"avformat_free_context", "free_url_context",
                                 "rtcDeleteTrack"}
            /\ events[k][1] = "rtcDeletePeerConnection") => j < k
        /\ (events[j][1] = "DELETE" /\ events[k][1] \in LocalReleases) => j < k

\* C11 (as claimed): the releases happen in the order RTP context, URLContext,
\* track handle for each track, the peer connection is deleted only once every
\* track's resources have been released, and a DELETE comes before every local
\* release.
C11_TeardownOrder ==
    /\ ReleaseOrder
    /\ rtc.pc = "deleted" => TrackResources = {}

\* C12 (as claimed): whenever a step unsets a resource_location that was set,
\* that step attempts a DELETE to it, which happens at most once in a session;
\* ff_webrtc_deinit never frees a resource_location that is still set.
C12_LocationClearedByDelete ==
    [][/\ (resource_location # NULL /\ resource_location' = NULL)
            => /\ Count("DELETE")' = Count("DELETE") + 1
               /\ Count("DELETE")' = 1
       /\ Count("free_location")' = 0]_vars

\* the steps that run ff_webrtc_create_resource
CreateResourceStep ==
    pc \in {"whip_inited", "whep_create_resource"} /\ pc' # pc

\* C13 (as claimed): resource_location is unset until ff_webrtc_create_resource
\* runs, and when that returns an error, at whichever step, it is still unset.
C13_LocationOnlyAfterSuccess ==
    [][/\ (CreateResourceStep /\ ret' < 0) => resource_location' = NULL
       /\ (~CreateResourceStep /\ resource_location = NULL)
            => resource_location' = NULL]_vars

\* how far the session is: 0 before the tracks are added, 1 while they are
\* added, 2 when ff_webrtc_create_resource is about to run, 3 from then on
Stage(l) ==
    CASE l \in {"whip_init", "whep_read_header"} -> 0
      [] l \in {"whip_init_stream", "whep_add_tracks"} -> 1
      [] l \in {"whip_inited", "whep_create_resource"} -> 2
      [] OTHER -> 3

\* the order of rtcAddTrackEx and ff_webrtc_create_resource: the session
\* never steps back to an earlier stage (so ff_webrtc_create_resource, the
\* step that leaves stage 2, runs at most once), a POST is sent by that step
\* alone, tracks are added at stage 1 alone, and none is added twice
AddThenCreateOrder ==
    /\ Stage(pc') >= Stage(pc)
    /\ Count("POST")' # Count("POST") => (CreateResourceStep /\ Count("POST") = 0)
    /\ Count("rtcAddTrackEx")' # Count("rtcAddTrackEx") => Stage(pc) = 1
    /\ \A j, k \in 1..Len(events') :
          (events'[j][1] = "rtcAddTrackEx" /\ events'[j] = events'[k]) => j = k

\* C14 (as claimed): ff_webrtc_create_resource runs at most once in a session,
\* and when it runs every track of the track array has been added to the peer
\* connection; no track is added once it has started, none is added twice.
C14_CreateOnceAfterAllTracks ==
    [][/\ AddThenCreateOrder
       /\ CreateResourceStep =>
            \A k \in 1..Len(tracks) : <<"track", tracks[k].track_id>> \in live]_vars

\* C15 (as claimed): once the caller's interrupt callback answers non-zero,
\* the connect wait does not get through a whole pass of its loop: raised
\* before the test of the loop condition, the pass does not end in another
\* sleep; raised before the tests of the loop body, open does not go on as
\* connected; and when the wait ends on it, open returns AVERROR_EXIT.
C15_InterruptEndsWait ==
    [][\A L \in {WhipWait, WhepWait} :
        /\ (interrupted_at = L.guard /\ pc = L.time /\ pc' # pc)
              => (pc' = L.fail /\ (now > timeout \/ ret' = AVERROR_EXIT))
        /\ (interrupted_at = L.failed /\ pc = L.guard) => pc' # L.ok]_vars

\* the steps that run whep_read_packet to its return
ReadStep == pc = "whep_opened" /\ pc' = pc /\ last_read' # last_read

\* C16 (as claimed): a packet whep_read_packet returns was filled by the RTP
\* reader of track 0 or 1 and carries that track's index as stream index; and
\* the packets of both tracks get returned: a read that finds a message
\* ready on the audio track alone returns it, with stream index 1.
C16_ReadReturnsEitherTrack ==
    [][ReadStep =>
        /\ ret' >= 0 => /\ last_read'.track \in {0, 1}
                        /\ last_read'.stream_index = last_read'.track
        /\ last_read'.ready = {1}
              => (last_read'.track = 1 /\ last_read'.stream_index = 1)]_vars

\* an audio stream that is not 48 kHz stereo
BadAudio(st) ==
    st.codec_type = "AUDIO" /\ (st.sample_rate # 48000 \/ ~st.stereo)
\* a stream whip_init must refuse
Offending(st) == BadAudio(st) \/ st.codec_id \notin SupportedCodecs

\* what C17 says of the streams whose type is in kinds: the pass of the loop
\* of whip_init over an offending stream ends whip_init with an error and
\* adds no track; the error is AVERROR(EINVAL), unless a call that comes
\* before ff_webrtc_convert_codec failed for the stream
RefusedWithEINVAL(kinds) ==
    (/\ pc = "whip_init_stream" /\ pc' # pc
     /\ streams[i + 1].codec_type \in kinds
     /\ Offending(streams[i + 1]))
        => /\ pc' = "whip_init_failed"
           /\ events' = events
           /\ \/ ret' = AVERROR_EINVAL
              \/ ret' \in {AVERROR_ENOMEM, AVERROR_EIO} /\ ~BadAudio(streams[i + 1])

\* C17 (as claimed): whip_init fails with AVERROR(EINVAL) and adds no track
\* for the stream whenever an audio stream is not 48 kHz stereo or a stream's
\* codec is not one ff_webrtc_convert_codec maps.
C17_OffendingStreamRefused ==
    [][RefusedWithEINVAL({"VIDEO", "AUDIO", "DATA"})]_vars

\* the rtcDeletePeerConnection calls made on the peer connection the engine
\* created
PcDeletes ==
    {k \in 1..Len(events) : events[k] = <<"rtcDeletePeerConnection", PcHandle>>}

\* the session is over: open has failed and the teardown has run, or the
\* session was closed
SessionOver == pc \in {"whip_failed", "whip_closed", "whep_failed", "whep_closed"}

\* C18 (as claimed): the peer connection is deleted at most once on every
\* path, and once the session is over it has been deleted if it was created.
C18_PeerConnectionDeletedOnce ==
    /\ Cardinality(PcDeletes) <= 1
    /\ SessionOver => <<"pc", PcHandle>> \notin live

\* the engine accepted the rtcAddTrackEx of track k (0-based)
Accepted(k) == \E e \in 1..Len(events) : events[e] = <<"rtcAddTrackEx", k>>

\* C19 (as claimed): in every state a track's stored track_id is non-zero
\* exactly when the engine accepted its rtcAddTrackEx, and open does not go
\* past a refused rtcAddTrackEx to the signaling exchange.
C19_HandleNonZeroIffAccepted ==
    /\ \A k \in 1..Len(tracks) : (tracks[k].track_id # 0) = Accepted(k - 1)
    /\ pc = "whep_create_resource" => (Accepted(0) /\ Accepted(1))
    /\ pc = "whip_inited" =>
          \A k \in 1..Len(tracks) : tracks[k].rtp_ctx => Accepted(k - 1)

\* C20: a step that changes ctx->state is a run of the callback the engine
\* holds for a live peer connection, and it changes nothing else: not the
\* tracks, the peer connection handle or resource_location, nor anything a
\* handler writes.  So no step of open, read, write, close or teardown
\* changes ctx->state.
C20_StateOnlyByCallback ==
    [][state' # state =>
        /\ rtc.pc = "live" /\ rtc.cb
        /\ UNCHANGED <<role, streams, bearer_token, peer_connection, tracks,
                       nb_tracks, resource_location, pc, i, ret, now, timeout,
                       wait_result, rtc, live, events, http_body,
                       remote_description, pub_streams, rtp_written, wcount,
                       closes, last_read, pkt, interrupted_at, guard_read>>]_vars

\* the callback has moved the state off RTC_CONNECTED on an open session,
\* which was then read and closed with the state left as it was
C20_Witness ==
    /\ pc = "whep_closed" /\ closes = 1
    /\ last_read.track = 0
    /\ state = "RTC_DISCONNECTED"
    /\ peer_connection = 0 /\ tracks = NULL_TRACKS

\* C21 (as claimed): ctx->state only ever holds RTC_NEW, RTC_CONNECTING,
\* RTC_CONNECTED, RTC_FAILED or RTC_CLOSED, and once it holds RTC_FAILED or
\* RTC_CLOSED no step changes it.
C21_FailedAndClosedAreTerminal ==
    [][/\ state' \in {"RTC_NEW", "RTC_CONNECTING", "RTC_CONNECTED",
                      "RTC_FAILED", "RTC_CLOSED"}
       /\ state \in {"RTC_FAILED", "RTC_CLOSED"} => state' = state]_vars

\* the RTP readers and URLContexts among the resources rs
Readers(rs) == {r \in rs : r[1] \in {"rtp_ctx", "url_context"}}

\* C22: in the egress role an RTP reader or a URLContext is opened only by
\* the per-track setup, which is entered only from the loop guard of the
\* connect wait on a read of RTC_CONNECTED; and when the wait has failed none
\* is allocated and none was ever there to release.
C22_ReadersOnlyAfterConnected ==
    [][role = "whep" =>
        /\ Readers(live') \ Readers(live) # {} => pc = "whep_setup"
        /\ (pc' = "whep_setup" /\ pc # "whep_setup")
              => (pc = WhepWait.guard /\ state = "RTC_CONNECTED")
        /\ wait_result' \in {"failed_state", "timeout"}
              => /\ Readers(live') = {}
                 /\ Count("avformat_free_context")' = 0
                 /\ Count("free_url_context")' = 0]_vars

\* the setup of track 0 has opened its RTP reader and URLContext after the
\* wait ended on RTC_CONNECTED, and the state has moved on since
C22_Witness ==
    /\ role = "whep" /\ pc = "whep_setup" /\ i = 1
    /\ wait_result = "connected"
    /\ {<<"rtp_ctx", 0>>, <<"url_context", 0>>} \subseteq live
    /\ state = "RTC_DISCONNECTED"

\* C23: what webrtc_read returns for each answer of rtcReceiveMessage: the
\* length of the message for RTC_ERR_SUCCESS, AVERROR(EAGAIN) for
\* RTC_ERR_NOT_AVAIL, AVERROR_BUFFER_TOO_SMALL for RTC_ERR_TOO_SMALL and
\* AVERROR_EOF for every other answer; the first three are never AVERROR_EOF.
C23_RecvMapping ==
    last_read.recv # "none" =>
        /\ last_read.recv = "RTC_ERR_SUCCESS"
              => (last_read.bytes = last_read.size /\ last_read.bytes > 0)
        /\ last_read.recv = "RTC_ERR_NOT_AVAIL"
              => last_read.bytes = AVERROR_EAGAIN
        /\ last_read.recv = "RTC_ERR_TOO_SMALL"
              => last_read.bytes = AVERROR_BUFFER_TOO_SMALL
        /\ last_read.recv \in {"RTC_ERR_FAILURE", "RTC_ERR_INVALID"}
              => last_read.bytes = AVERROR_EOF
        /\ last_read.bytes = AVERROR_EOF
              => last_read.recv \in {"RTC_ERR_FAILURE", "RTC_ERR_INVALID"}

\* a read found a message longer than the reader's buffer and returned the
\* too-small error
C23_Witness ==
    /\ pc = "whep_opened"
    /\ last_read.recv = "RTC_ERR_TOO_SMALL"
    /\ last_read.size > RTP_MAX_PACKET_SIZE
    /\ ret = AVERROR_BUFFER_TOO_SMALL

\* the steps that run whip_write_packet to its return
WriteStep == wcount' # wcount /\ pc' # "crashed"

\* C24 (as claimed): a whip_write_packet that is rejected with AVERROR(EINVAL)
\* leaves pkt->stream_index as the caller set it, and a packet that is
\* handed to an RTP writer, at once or on a retry, goes to the writer of the
\* stream it was addressed to.
C24_RejectedWriteKeepsPacket ==
    [][WriteStep =>
        /\ ret' = AVERROR_EINVAL => pkt'.stream_index = pkt'.addressed
        /\ rtp_written' # rtp_written
              => rtp_written'[Len(rtp_written')] = pkt'.addressed]_vars

\* whep_read_header leaves through its fail label: ff_webrtc_deinit has run
\* and ret is returned
OpenTornDown == pc = "whep_fail" /\ pc' # "whep_fail"

\* C25 (as claimed): whenever whep_read_header tears the session down at its
\* fail label, the value it returns is negative, whichever setup step sent
\* it there; the caller never takes a torn-down session for an open one.
C25_TornDownOpenReturnsNegative ==
    [][OpenTornDown => (ret' < 0 /\ pc' = "whep_failed")]_vars

\* the tests of the connect wait at which it can end in failure
FailingTest(L) ==
    \/ pc = L.failed /\ state = "RTC_FAILED"
    \/ pc = L.closed /\ state = "RTC_CLOSED"
    \/ pc = L.time /\ now > timeout

\* C26: whatever the callback does between the reads of ctx->state, the
\* connect wait of either role ends in success only at its loop guard, on a
\* read that returned RTC_CONNECTED, and ends in failure only at the test
\* that read RTC_FAILED, at the test that read RTC_CLOSED, or at the deadline
\* test with the deadline passed; a read of RTC_NEW, RTC_CONNECTING or
\* RTC_DISCONNECTED before the deadline never ends it.
C26_WaitEndsOnWhatItRead ==
    [][\A L \in {WhipWait, WhepWait} :
        /\ (pc \in {L.guard, L.failed, L.closed, L.time} /\ pc' = L.ok)
              => /\ pc = L.guard /\ state = "RTC_CONNECTED"
                 /\ guard_read' = "connected"
        /\ (pc \in {L.guard, L.failed, L.closed, L.time} /\ pc' = L.fail)
              => /\ FailingTest(L)
                 /\ ret' = AVERROR_EXTERNAL
                 /\ guard_read # "connected"]_vars

\* the wait has failed before the deadline on RTC_FAILED or RTC_CLOSED, which
\* the callback stored after the guard of that pass had read a state on
\* which the wait goes on
C26_Witness ==
    /\ pc \in {WhipWait.fail, WhepWait.fail}
    /\ wait_result = "failed_state"
    /\ guard_read = "pending"
    /\ now <= timeout

\* the ingest session is torn down: whip_deinit has released the track array
\* and the peer connection
TornDown == pc = "whip_closed" /\ tracks = NULL_TRACKS /\ peer_connection = 0

\* C27 (as claimed): a whip_write_packet on a torn-down ingest session is
\* rejected with AVERROR(EINVAL): it does not end the process on the
\* released track array and hands nothing to an RTP writer, whatever state
\* the callback stored last.
C27_WriteAfterTeardownRejected ==
    [][(TornDown /\ wcount' # wcount)
          => /\ pc' # "crashed"
             /\ ret' = AVERROR_EINVAL
             /\ rtp_written' = rtp_written]_vars
====
